---- MODULE Spec2Model ----
(***************************************************************************)
(* Clipboard history store: DatabaseManager (src/database.py) over the     *)
(* clipboard_history table, with Config and ContentType (src/config.py).   *)
(*                                                                         *)
(* Strings are run-length encoded: a string is a sequence of runs          *)
(* [ch, n] (character ch repeated n >= 1 times) in which neighbouring runs *)
(* carry different characters, so that two strings are equal exactly when  *)
(* their encodings are equal and contents of MAX_CONTENT_LENGTH + 1        *)
(* characters can be written down.                                         *)
(***************************************************************************)
EXTENDS Integers, Sequences, FiniteSets, TLC

(***************************************************************************)
(* Config (src/config.py)                                                  *)
(***************************************************************************)
MAX_PREVIEW_LENGTH == 100
DUPLICATE_CHECK_ENABLED == TRUE
MAX_CONTENT_LENGTH == 1000000
SEARCH_MIN_LENGTH == 2

(***************************************************************************)
(* Bounds of the model                                                     *)
(***************************************************************************)
\* number of rows ever inserted (value of the AUTOINCREMENT sequence)
MaxId == 2
\* the same, where only the calls that insert and remove rows are made
MaxDedupId == 3
\* largest value read from the wall clock
MaxTime == 2
\* largest limit / offset passed to get_all_items
MaxLimit == 1

(***************************************************************************)
(* Strings                                                                 *)
(***************************************************************************)
RECURSIVE Norm(_)
\* canonical encoding: no empty run, no two neighbouring runs of one character
Norm(s) ==
    IF Len(s) = 0 THEN <<>>
    ELSE IF s[1].n = 0 THEN Norm(Tail(s))
    ELSE LET r == Norm(Tail(s)) IN
         IF Len(r) > 0 /\ r[1].ch = s[1].ch
         THEN <<[ch |-> s[1].ch, n |-> s[1].n + r[1].n]>> \o Tail(r)
         ELSE <<s[1]>> \o r

\* the string whose characters are the elements of the tuple t
Str(t) == Norm([i \in 1..Len(t) |-> [ch |-> t[i], n |-> 1]])

\* c * n
Rep(c, n) == Norm(<<[ch |-> c, n |-> n]>>)

RECURSIVE StrLen(_)
\* len(s)
StrLen(s) == IF Len(s) = 0 THEN 0 ELSE s[1].n + StrLen(Tail(s))

RECURSIVE Take(_, _)
\* s[:k]
Take(s, k) ==
    IF k <= 0 \/ Len(s) = 0 THEN <<>>
    ELSE IF s[1].n >= k THEN <<[ch |-> s[1].ch, n |-> k]>>
    ELSE <<s[1]>> \o Take(Tail(s), k - s[1].n)

\* a + b
Concat(a, b) == Norm(a \o b)

\* s.replace(old, new) for single characters old, new
Replace(s, old, new) ==
    Norm([i \in 1..Len(s) |->
            [ch |-> IF s[i].ch = old THEN new ELSE s[i].ch, n |-> s[i].n]])

UpperChars == <<"A", "B", "C", "D", "E", "F", "G", "H", "I", "J", "K", "L", "M",
                "N", "O", "P", "Q", "R", "S", "T", "U", "V", "W", "X", "Y", "Z">>
LowerChars == <<"a", "b", "c", "d", "e", "f", "g", "h", "i", "j", "k", "l", "m",
                "n", "o", "p", "q", "r", "s", "t", "u", "v", "w", "x", "y", "z">>

\* c.lower() for one character
LowerChar(c) ==
    IF \E i \in 1..Len(UpperChars) : UpperChars[i] = c
    THEN LowerChars[CHOOSE i \in 1..Len(UpperChars) : UpperChars[i] = c]
    ELSE c

\* s.lower()
Lower(s) == Norm([i \in 1..Len(s) |-> [ch |-> LowerChar(s[i].ch), n |-> s[i].n]])

\* the characters str.strip() removes
Whitespace == {" ", "\n", "\t", "\r"}

\* s.strip(), s canonical: whitespace runs at either end are dropped
Strip(s) ==
    LET inner == {i \in 1..Len(s) : s[i].ch \notin Whitespace} IN
    IF inner = {} THEN <<>>
    ELSE LET lo == CHOOSE i \in inner : \A j \in inner : i <= j
             hi == CHOOSE i \in inner : \A j \in inner : i >= j
         IN  SubSeq(s, lo, hi)

\* s.startswith(p), both canonical
StartsWith(s, p) ==
    LET m == Len(p) IN
    \/ m = 0
    \/ /\ Len(s) >= m
       /\ \A i \in 1..(m - 1) : s[i] = p[i]
       /\ s[m].ch = p[m].ch
       /\ s[m].n >= p[m].n

\* p in s, both canonical: the first and last run of p may lie inside a
\* longer run of s, the runs between them are matched exactly
Contains(s, p) ==
    LET m == Len(p) IN
    \/ m = 0
    \/ \E j \in 1..(Len(s) - m + 1) :
          /\ s[j].ch = p[1].ch
          /\ s[j].n >= p[1].n
          /\ (m > 1 => /\ s[j + m - 1].ch = p[m].ch
                       /\ s[j + m - 1].n >= p[m].n
                       /\ \A i \in 2..(m - 1) : s[j + i - 1] = p[i])

(***************************************************************************)
(* ContentType (src/config.py)                                             *)
(***************************************************************************)
TEXT == "text"
URL == "url"
CODE == "code"
UNKNOWN == "unknown"

UrlPrefixes ==
    { Str(<<"h", "t", "t", "p", ":", "/", "/">>),
      Str(<<"h", "t", "t", "p", "s", ":", "/", "/">>),
      Str(<<"f", "t", "p", ":", "/", "/">>) }

code_indicators ==
    { Str(<<"d", "e", "f", " ">>),
      Str(<<"c", "l", "a", "s", "s", " ">>),
      Str(<<"i", "m", "p", "o", "r", "t", " ">>),
      Str(<<"f", "u", "n", "c", "t", "i", "o", "n", " ">>),
      Str(<<"c", "o", "n", "s", "t", " ">>),
      Str(<<"v", "a", "r", " ">>) }

\* None passed as content: not a string, and no string equals it
NoneContent == <<[ch |-> "None", n |-> 0]>>

\* ContentType.detect
detect(content) ==
    IF content = NoneContent \/ content = <<>> THEN UNKNOWN
    ELSE LET content_lower == Strip(Lower(content)) IN
         IF \E p \in UrlPrefixes : StartsWith(content_lower, p) THEN URL
         ELSE IF \E indicator \in code_indicators : Contains(content_lower, indicator)
              THEN CODE
              ELSE TEXT

(***************************************************************************)
(* DatabaseManager (src/database.py)                                       *)
(***************************************************************************)
VARIABLES
    table,        \* the rows of clipboard_history
    seq,          \* the AUTOINCREMENT sequence: the largest id ever assigned
    clock,        \* the last value time.time() returned
    last,         \* the last call: its name, arguments and return value
    issued,       \* history: the ids returned by add_clipboard_item, in order
    newest,       \* history: the content of the row inserted last, if any
    removed,      \* history: the ids for which delete_item returned True
    toggle_rets,  \* history: per stored id, what toggle_favorite last returned
    pending       \* per caller, the add_clipboard_item call it is inside of, if any

vars == <<table, seq, clock, last, issued, newest, removed, toggle_rets, pending>>

\* Optional[int]: None, or a value
None == {}
Some(x) == {x}

\* the contents callers pass to add_clipboard_item
ContentX == Str(<<"d", "e", "f", " ", "x">>)
ContentY == Rep("A", MAX_CONTENT_LENGTH)
ContentTooLong == Rep("A", MAX_CONTENT_LENGTH + 1)
Contents == {<<>>, ContentX, ContentY, ContentTooLong}

\* the callers of one database file, where calls are followed step by step
Callers == {1, 2}

\* the ids callers pass: every id the table can come to hold
Ids == 1..MaxId
DedupIds == 1..MaxDedupId

\* the dots appended already at MAX_PREVIEW_LENGTH characters
_generate_preview_ge(content) ==
    LET preview == Take(content, MAX_PREVIEW_LENGTH) IN
    Replace(IF StrLen(content) >= MAX_PREVIEW_LENGTH
            THEN Concat(preview, Rep(".", 3))
            ELSE preview,
            "\n", " ")

\* DatabaseManager._generate_preview
_generate_preview(content) ==
    LET preview == Take(content, MAX_PREVIEW_LENGTH) IN
    Replace(IF StrLen(content) > MAX_PREVIEW_LENGTH
            THEN Concat(preview, Rep(".", 3))
            ELSE preview,
            "\n", " ")

\* the length limit left out
RejectedEmptyOnly(content) == content = <<>>

\* add_clipboard_item, line 78: the contents it refuses
Rejected(content) == content = <<>> \/ StrLen(content) > MAX_CONTENT_LENGTH

RECURSIVE OrderByTimestampAsc(_)
\* ORDER BY timestamp ASC in place of DESC
OrderByTimestampAsc(tbl) ==
    IF tbl = {} THEN {<<>>}
    ELSE LET first == {r \in tbl : \A q \in tbl : r.timestamp <= q.timestamp} IN
         UNION { { <<r>> \o o : o \in OrderByTimestampAsc(tbl \ {r}) } : r \in first }

RECURSIVE OrderByTimestampDesc(_)
\* ORDER BY timestamp DESC: the orders the rows of tbl can be returned in.
\* Rows with equal timestamps may come in either order.
OrderByTimestampDesc(tbl) ==
    IF tbl = {} THEN {<<>>}
    ELSE LET first == {r \in tbl : \A q \in tbl : r.timestamp >= q.timestamp} IN
         UNION { { <<r>> \o o : o \in OrderByTimestampDesc(tbl \ {r}) } : r \in first }

\* LIMIT lim OFFSET off applied to the ordered rows o
LimitOffset(o, lim, off) ==
    SubSeq(o, off + 1, IF off + lim < Len(o) THEN off + lim ELSE Len(o))

\* an empty table taken for a duplicate
_is_duplicate_or_empty(content, row) == Len(row) = 0 \/ row[1].content = content

\* _is_duplicate: row is the result of fetchone(), a sequence of at most one row
_is_duplicate(content, row) == Len(row) > 0 /\ row[1].content = content

\* the id an INTEGER PRIMARY KEY column without AUTOINCREMENT gives the next
\* row: one more than the largest id stored
NextRowid(tbl, sq) ==
    IF tbl = {} THEN 1
    ELSE (CHOOSE i \in {r.id : r \in tbl} : \A r \in tbl : r.id <= i) + 1

\* the id an INTEGER PRIMARY KEY AUTOINCREMENT column gives the next row
NextId(tbl, sq) == sq + 1

\* char_count taken from the preview
NewRowPreviewCount(id, content, timestamp) ==
    [ id           |-> id,
      content      |-> content,
      content_type |-> detect(content),
      timestamp    |-> timestamp,
      char_count   |-> StrLen(_generate_preview(content)),
      preview      |-> _generate_preview(content),
      is_favorite  |-> 0 ]

\* the row INSERT creates; is_favorite takes the column's default
NewRow(id, content, timestamp) ==
    [ id           |-> id,
      content      |-> content,
      content_type |-> detect(content),
      timestamp    |-> timestamp,
      char_count   |-> StrLen(content),
      preview      |-> _generate_preview(content),
      is_favorite  |-> 0 ]

Init ==
    /\ table = {}
    /\ seq = 0
    /\ clock = 1
    /\ last = [op |-> "__init__"]
    /\ issued = <<>>
    /\ newest = None
    /\ removed = {}
    /\ toggle_rets = << >>
    /\ pending = [caller \in Callers |-> None]

\* the history kept per stored id, after the table became tbl
Restrict(f, tbl) == [i \in {r.id : r \in tbl} |-> IF i \in DOMAIN f THEN f[i] ELSE None]

add_clipboard_item(content, check_duplicate) ==
    LET call == [op |-> "add_clipboard_item", content |-> content,
                 check_duplicate |-> check_duplicate]
        refuse == /\ last' = call @@ [ret |-> None]
                  /\ UNCHANGED <<table, seq, clock, issued, newest, removed, toggle_rets>>
        insert == \E timestamp \in clock..MaxTime :
                       LET id == NextId(table, seq) IN
                       /\ table' = table \cup {NewRow(id, content, timestamp)}
                       /\ seq' = IF id > seq THEN id ELSE seq
                       /\ clock' = timestamp
                       /\ last' = call @@ [ret |-> Some(id)]
                       /\ issued' = Append(issued, id)
                       /\ newest' = Some(content)
                       /\ toggle_rets' = Restrict(toggle_rets, table')
                       /\ UNCHANGED removed
    IN
    IF Rejected(content) THEN refuse
    ELSE IF check_duplicate /\ DUPLICATE_CHECK_ENABLED
         THEN \E o \in OrderByTimestampDesc(table) :
                IF _is_duplicate(content, LimitOffset(o, 1, 0)) THEN refuse ELSE insert
         ELSE insert

\* DELETE FROM clipboard_history WHERE id <= ?
DeleteWhereIdUpTo(tbl, item_id) == {r \in tbl : r.id > item_id}

\* DELETE FROM clipboard_history WHERE id = ?
DeleteWhereId(tbl, item_id) == {r \in tbl : r.id # item_id}

delete_item(item_id) ==
    LET rowcount == Cardinality(table) - Cardinality(DeleteWhereId(table, item_id)) IN
    /\ table' = DeleteWhereId(table, item_id)
    /\ last' = [op |-> "delete_item", item_id |-> item_id, ret |-> rowcount > 0]
    /\ removed' = IF rowcount > 0 THEN removed \cup {item_id} ELSE removed
    /\ toggle_rets' = Restrict(toggle_rets, table')
    /\ UNCHANGED <<seq, clock, issued, newest>>

\* the count taken after the rows are gone
CountAfterDelete(tbl) == 0

\* SELECT COUNT(*) FROM clipboard_history
CountRows(tbl) == Cardinality(tbl)

clear_all ==
    LET count == CountRows(table) IN
    /\ table' = {}
    /\ last' = [op |-> "clear_all", ret |-> count]
    /\ toggle_rets' = Restrict(toggle_rets, table')
    /\ UNCHANGED <<seq, clock, issued, newest, removed>>

\* UPDATE clipboard_history SET is_favorite = 1 WHERE id = ?
SetFavorite(tbl, item_id) ==
    { IF r.id = item_id THEN [r EXCEPT !.is_favorite = 1] ELSE r : r \in tbl }

\* UPDATE clipboard_history SET is_favorite = 1 - is_favorite
UpdateFavoriteAll(tbl, item_id) ==
    { [r EXCEPT !.is_favorite = 1 - r.is_favorite] : r \in tbl }

\* UPDATE clipboard_history SET is_favorite = 1 - is_favorite WHERE id = ?
UpdateFavorite(tbl, item_id) ==
    { IF r.id = item_id THEN [r EXCEPT !.is_favorite = 1 - r.is_favorite] ELSE r :
      r \in tbl }

toggle_favorite(item_id) ==
    LET updated == UpdateFavorite(table, item_id)
        rows == {r \in updated : r.id = item_id}
        ret == IF rows # {} THEN (CHOOSE r \in rows : TRUE).is_favorite # 0 ELSE FALSE
    IN
    /\ table' = updated
    /\ last' = [op |-> "toggle_favorite", item_id |-> item_id, ret |-> ret]
    /\ toggle_rets' = [i \in DOMAIN Restrict(toggle_rets, updated) |->
                         IF i = item_id THEN Some(ret) ELSE toggle_rets[i]]
    /\ UNCHANGED <<seq, clock, issued, newest, removed>>

get_all_items(limit, offset) ==
    /\ \E o \in OrderByTimestampDesc(table) :
         last' = [op |-> "get_all_items", limit |-> limit, offset |-> offset,
                  ret |-> LimitOffset(o, limit, offset)]
    /\ UNCHANGED <<table, seq, clock, issued, newest, removed, toggle_rets>>

\* a count for each of the four content types, stored or not
TypeStatsAllTypes(tbl) ==
    [t \in {TEXT, URL, CODE, UNKNOWN} |->
        Cardinality({r \in tbl : r.content_type = t})]

\* SELECT content_type, COUNT(*) ... GROUP BY content_type, as a dict
TypeStats(tbl) ==
    [t \in {r.content_type : r \in tbl} |->
        Cardinality({r \in tbl : r.content_type = t})]

get_statistics ==
    /\ last' = [op |-> "get_statistics",
                ret |-> [total_items |-> CountRows(table), by_type |-> TypeStats(table)]]
    /\ UNCHANGED <<table, seq, clock, issued, newest, removed, toggle_rets>>

\* one caller, every call made from start to end
Sequential == UNCHANGED pending

Next ==
    \/ \E content \in Contents, check_duplicate \in BOOLEAN :
         add_clipboard_item(content, check_duplicate) /\ seq' <= MaxId /\ Sequential
    \/ \E item_id \in Ids : delete_item(item_id) /\ Sequential
    \/ clear_all /\ Sequential
    \/ \E item_id \in Ids : toggle_favorite(item_id) /\ Sequential
    \/ \E limit \in 1..MaxLimit, offset \in 0..1 :
         get_all_items(limit, offset * limit) /\ Sequential
    \/ get_statistics /\ Sequential

Spec == Init /\ [][Next]_vars

\* the calls that insert and remove rows
NextDedup ==
    \/ \E content \in Contents, check_duplicate \in BOOLEAN :
         add_clipboard_item(content, check_duplicate) /\ seq' <= MaxDedupId /\ Sequential
    \/ \E item_id \in DedupIds : delete_item(item_id) /\ Sequential
    \/ clear_all /\ Sequential

SpecDedup == Init /\ [][NextDedup]_vars

TypeOK ==
    /\ seq \in 0..MaxDedupId
    /\ clock \in 1..MaxTime
    /\ \A r \in table : r.id \in 1..seq /\ r.timestamp \in 1..clock

(***************************************************************************)
(* search_items (src/database.py)                                          *)
(***************************************************************************)
\* a keyword is the tuple of its characters; the contents searched are short
SearchA == Str(<<"a", "b">>)
SearchB == Str(<<"x", "a", "b", "y">>)
SearchContents == {SearchA, SearchB}
Keywords == { <<>>, <<"a">>, <<"a", "b">>, <<"b", "y">>, <<"A", "B">>, <<"a", "_">> }

RECURSIVE Expand(_)
\* the characters of the string s, one by one
Expand(s) ==
    IF Len(s) = 0 THEN <<>>
    ELSE [i \in 1..s[1].n |-> s[1].ch] \o Expand(Tail(s))

RECURSIVE Like(_, _)
\* SQLite's  txt LIKE pat  (no ESCAPE): % matches any run of characters,
\* _ matches one character, an ASCII letter matches in either case
Like(pat, txt) ==
    IF Len(pat) = 0 THEN Len(txt) = 0
    ELSE IF pat[1] = "%"
         THEN \/ Like(Tail(pat), txt)
              \/ Len(txt) > 0 /\ Like(pat, Tail(txt))
         ELSE /\ Len(txt) > 0
              /\ pat[1] = "_" \/ LowerChar(pat[1]) = LowerChar(txt[1])
              /\ Like(Tail(pat), Tail(txt))

\* WHERE content LIKE ?  with the parameter f'%{keyword}%'
WhereContentLike(tbl, keyword) ==
    {r \in tbl : Like(<<"%">> \o keyword \o <<"%">>, Expand(r.content))}

\* only the empty keyword is turned away
KeywordEmpty(keyword) == Len(keyword) < 1

\* search_items, line 143: the keywords it does not look up
KeywordTooShort(keyword) == Len(keyword) < SEARCH_MIN_LENGTH

search_items(keyword, limit) ==
    LET call == [op |-> "search_items", keyword |-> keyword, limit |-> limit] IN
    /\ IF KeywordTooShort(keyword)
       THEN last' = call @@ [ret |-> <<>>]
       ELSE \E o \in OrderByTimestampDesc(WhereContentLike(table, keyword)) :
              last' = call @@ [ret |-> LimitOffset(o, limit, 0)]
    /\ UNCHANGED <<table, seq, clock, issued, newest, removed, toggle_rets>>

\* every call of the store, over contents short enough to search, all made
\* within one tick of the clock
NextSearch ==
    \/ \E content \in SearchContents, check_duplicate \in BOOLEAN :
         /\ add_clipboard_item(content, check_duplicate)
         /\ seq' <= MaxId /\ clock' = clock /\ Sequential
    \/ \E item_id \in Ids : delete_item(item_id) /\ Sequential
    \/ clear_all /\ Sequential
    \/ \E item_id \in Ids : toggle_favorite(item_id) /\ Sequential
    \/ \E limit \in 1..MaxLimit : get_all_items(limit, 0) /\ Sequential
    \/ \E keyword \in Keywords, limit \in 1..MaxLimit :
         search_items(keyword, limit) /\ Sequential
    \/ get_statistics /\ Sequential

SpecSearch == Init /\ [][NextSearch]_vars

(***************************************************************************)
(* ContentType.detect and _generate_preview called on their own            *)
(***************************************************************************)
DetectLeads == { <<>>, <<" ">> }
DetectSchemes ==
    { <<>>,
      <<"h", "t", "t", "p", ":", "/", "/">>,
      <<"H", "T", "T", "P", "S", ":", "/", "/">>,
      <<"f", "t", "p", ":", "/", "/">>,
      <<"h", "t", "t", "p", ":", "/">> }
DetectBodies ==
    { <<>>, <<"x">>, <<"d", "e", "f">>,
      <<"d", "e", "f", " ">>,
      <<"D", "e", "f", " ", "x">>,
      <<"c", "l", "a", "s", "s", " ">>,
      <<"i", "m", "p", "o", "r", "t", " ">>,
      <<"f", "u", "n", "c", "t", "i", "o", "n", " ">>,
      <<"c", "o", "n", "s", "t", " ">>,
      <<"v", "a", "r", " ">> }
DetectTrails == { <<>>, <<" ">>, <<"\n">> }

\* the contents detect is called with
DetectInputs ==
    {NoneContent} \cup
    { Str(lead \o scheme \o body \o trail) :
        lead \in DetectLeads, scheme \in DetectSchemes,
        body \in DetectBodies, trail \in DetectTrails }

call_detect(content) ==
    /\ last' = [op |-> "detect", content |-> content, ret |-> detect(content)]
    /\ UNCHANGED <<table, seq, clock, issued, newest, removed, toggle_rets>>

NextDetect == \E content \in DetectInputs : call_detect(content) /\ Sequential

SpecDetect == Init /\ [][NextDetect]_vars

\* the contents _generate_preview is called with: up to three runs of
\* letters and newlines, each run about MAX_PREVIEW_LENGTH long or short
PreviewRuns == {0, 1, MAX_PREVIEW_LENGTH - 1, MAX_PREVIEW_LENGTH, MAX_PREVIEW_LENGTH + 1}
PreviewInputs ==
    { Norm(<<[ch |-> a, n |-> i], [ch |-> b, n |-> j], [ch |-> a, n |-> k]>>) :
        a \in {"A", "\n"}, b \in {"A", "\n"},
        i \in PreviewRuns, j \in PreviewRuns, k \in PreviewRuns }

call_generate_preview(content) ==
    /\ last' = [op |-> "_generate_preview", content |-> content,
                ret |-> _generate_preview(content)]
    /\ UNCHANGED <<table, seq, clock, issued, newest, removed, toggle_rets>>

NextPreview == \E content \in PreviewInputs : call_generate_preview(content) /\ Sequential

SpecPreview == Init /\ [][NextPreview]_vars

(***************************************************************************)
(* Connections and storage faults (src/database.py, _get_connection)       *)
(***************************************************************************)
\* where the storage layer fails inside one  with self._get_connection():
\* nowhere, in sqlite3.connect, in the stmt-th execute, or in commit
NoFault == [at |-> "none", stmt |-> 0]
Faults(statements) ==
    {NoFault, [at |-> "connect", stmt |-> 0], [at |-> "commit", stmt |-> 0]}
    \cup {[at |-> "execute", stmt |-> k] : k \in 1..statements}

\* a connection: the database as committed (db: the table and the
\* AUTOINCREMENT sequence), the database as this connection sees it (work),
\* and the calls made on the connection (log)
connect(db) == [db |-> db, work |-> db, open |-> TRUE, log |-> <<"connect">>]
execute(conn, work) == [conn EXCEPT !.work = work]
commit(conn) == [conn EXCEPT !.db = conn.work, !.log = Append(@, "commit")]
rollback(conn) == [conn EXCEPT !.work = conn.db, !.log = Append(@, "rollback")]
close(conn) == [conn EXCEPT !.open = FALSE, !.work = conn.db, !.log = Append(@, "close")]

\* the except branch commits what the body did so far
_get_connection_commit_on_error(db, works, fault) ==
    IF fault.at = "connect"
    THEN [db |-> db, work |-> db, open |-> FALSE, log |-> <<>>, raised |-> TRUE]
    ELSE LET conn == connect(db)
             executed == IF fault.at = "execute" THEN fault.stmt - 1 ELSE Len(works)
             body == IF executed = 0 THEN conn ELSE execute(conn, works[executed])
         IN  close(commit(body)) @@ [raised |-> fault.at # "none"]

\* close() at the end of the try block in place of the finally block
_get_connection_close_in_try(db, works, fault) ==
    IF fault.at = "connect"
    THEN [db |-> db, work |-> db, open |-> FALSE, log |-> <<>>, raised |-> TRUE]
    ELSE LET conn == connect(db)
             executed == IF fault.at = "execute" THEN fault.stmt - 1 ELSE Len(works)
             body == IF executed = 0 THEN conn ELSE execute(conn, works[executed])
         IN  IF fault.at = "none"
             THEN close(commit(body)) @@ [raised |-> FALSE]
             ELSE rollback(body) @@ [raised |-> TRUE]

\* with self._get_connection() as conn: <body>, where works[k] is the
\* database as the connection sees it after the k-th execute of the body.
\* The result is the connection at the end, and whether the block raised.
_get_connection(db, works, fault) ==
    IF fault.at = "connect"
    THEN [db |-> db, work |-> db, open |-> FALSE, log |-> <<>>, raised |-> TRUE]
    ELSE LET conn == connect(db)
             executed == IF fault.at = "execute" THEN fault.stmt - 1 ELSE Len(works)
             body == IF executed = 0 THEN conn ELSE execute(conn, works[executed])
         IN  IF fault.at = "none"
             THEN close(commit(body)) @@ [raised |-> FALSE]
             ELSE close(rollback(body)) @@ [raised |-> TRUE]

\* what a call leaves of a connection: the fault met, the calls made, open or not
ConnInfo(tx, fault) == [fault |-> fault, log |-> tx.log, open |-> tx.open]

\* a call that raised has no return value
Outcome(call, raised, ret, connections) ==
    IF raised THEN call @@ [raised |-> TRUE, connections |-> connections]
    ELSE call @@ [raised |-> FALSE, ret |-> ret, connections |-> connections]

Database == [table |-> table, seq |-> seq]

\* The calls once more, each through its connections and with the faults the
\* connections meet; the history variables are not kept up here.

\* add_clipboard_item, with the fault met by the connection of _is_duplicate
\* and the fault met by the connection of the INSERT
add_clipboard_item_tx(content, check_duplicate, fault_check, fault_insert) ==
    LET call == [op |-> "add_clipboard_item", content |-> content,
                 check_duplicate |-> check_duplicate]
        refuse(connections) ==
            /\ last' = Outcome(call, FALSE, None, connections)
            /\ UNCHANGED <<table, seq, clock, issued, newest, removed, toggle_rets>>
        insert(connections) ==
            \E timestamp \in clock..MaxTime :
                LET id == NextId(table, seq)
                    tx == _get_connection(Database,
                              << [table |-> table \cup {NewRow(id, content, timestamp)},
                                  seq |-> IF id > seq THEN id ELSE seq] >>,
                              fault_insert)
                IN  /\ table' = tx.db.table
                    /\ seq' = tx.db.seq
                    /\ clock' = timestamp
                    /\ last' = Outcome(call, tx.raised, Some(id),
                                       Append(connections, ConnInfo(tx, fault_insert)))
                    /\ UNCHANGED <<issued, newest, removed, toggle_rets>>
    IN
    IF Rejected(content) THEN refuse(<<>>)
    ELSE IF check_duplicate /\ DUPLICATE_CHECK_ENABLED
         THEN LET tx == _get_connection(Database, <<Database>>, fault_check) IN
              IF tx.raised
              THEN /\ table' = tx.db.table
                   /\ seq' = tx.db.seq
                   /\ last' = Outcome(call, TRUE, None, <<ConnInfo(tx, fault_check)>>)
                   /\ UNCHANGED <<clock, issued, newest, removed, toggle_rets>>
              ELSE \E o \in OrderByTimestampDesc(tx.db.table) :
                     IF _is_duplicate(content, LimitOffset(o, 1, 0))
                     THEN refuse(<<ConnInfo(tx, fault_check)>>)
                     ELSE insert(<<ConnInfo(tx, fault_check)>>)
         ELSE insert(<<>>)

delete_item_tx(item_id, fault) ==
    LET deleted == DeleteWhereId(table, item_id)
        rowcount == Cardinality(table) - Cardinality(deleted)
        tx == _get_connection(Database, <<[table |-> deleted, seq |-> seq]>>, fault)
    IN
    /\ table' = tx.db.table
    /\ seq' = tx.db.seq
    /\ last' = Outcome([op |-> "delete_item", item_id |-> item_id],
                       tx.raised, rowcount > 0, <<ConnInfo(tx, fault)>>)
    /\ UNCHANGED <<clock, issued, newest, removed, toggle_rets>>

clear_all_tx(fault) ==
    LET count == CountRows(table)
        tx == _get_connection(Database, <<Database, [table |-> {}, seq |-> seq]>>, fault)
    IN
    /\ table' = tx.db.table
    /\ seq' = tx.db.seq
    /\ last' = Outcome([op |-> "clear_all"], tx.raised, count, <<ConnInfo(tx, fault)>>)
    /\ UNCHANGED <<clock, issued, newest, removed, toggle_rets>>

toggle_favorite_tx(item_id, fault) ==
    LET updated == [table |-> UpdateFavorite(table, item_id), seq |-> seq]
        rows == {r \in updated.table : r.id = item_id}
        ret == IF rows # {} THEN (CHOOSE r \in rows : TRUE).is_favorite # 0 ELSE FALSE
        tx == _get_connection(Database, <<updated, updated>>, fault)
    IN
    /\ table' = tx.db.table
    /\ seq' = tx.db.seq
    /\ last' = Outcome([op |-> "toggle_favorite", item_id |-> item_id],
                       tx.raised, ret, <<ConnInfo(tx, fault)>>)
    /\ UNCHANGED <<clock, issued, newest, removed, toggle_rets>>

get_all_items_tx(limit, offset, fault) ==
    LET tx == _get_connection(Database, <<Database>>, fault) IN
    /\ table' = tx.db.table
    /\ seq' = tx.db.seq
    /\ \E o \in OrderByTimestampDesc(table) :
         last' = Outcome([op |-> "get_all_items", limit |-> limit, offset |-> offset],
                         tx.raised, LimitOffset(o, limit, offset), <<ConnInfo(tx, fault)>>)
    /\ UNCHANGED <<clock, issued, newest, removed, toggle_rets>>

search_items_tx(keyword, limit, fault) ==
    LET call == [op |-> "search_items", keyword |-> keyword, limit |-> limit]
        tx == _get_connection(Database, <<Database>>, fault)
    IN
    IF KeywordTooShort(keyword)
    THEN /\ last' = Outcome(call, FALSE, <<>>, <<>>)
         /\ UNCHANGED <<table, seq, clock, issued, newest, removed, toggle_rets>>
    ELSE /\ table' = tx.db.table
         /\ seq' = tx.db.seq
         /\ \E o \in OrderByTimestampDesc(WhereContentLike(table, keyword)) :
              last' = Outcome(call, tx.raised, LimitOffset(o, limit, 0),
                              <<ConnInfo(tx, fault)>>)
         /\ UNCHANGED <<clock, issued, newest, removed, toggle_rets>>

get_statistics_tx(fault) ==
    LET tx == _get_connection(Database, <<Database, Database>>, fault) IN
    /\ table' = tx.db.table
    /\ seq' = tx.db.seq
    /\ last' = Outcome([op |-> "get_statistics"], tx.raised,
                       [total_items |-> CountRows(table), by_type |-> TypeStats(table)],
                       <<ConnInfo(tx, fault)>>)
    /\ UNCHANGED <<clock, issued, newest, removed, toggle_rets>>

FaultContents == {<<>>, SearchA}
FaultKeywords == { <<"a">>, <<"a", "b">> }

\* every call of the store, with a storage fault anywhere inside it or none,
\* all made within one tick of the clock
NextFault ==
    \/ \E content \in FaultContents, check_duplicate \in BOOLEAN,
          fault_check \in Faults(1), fault_insert \in Faults(1) :
         /\ fault_check = NoFault \/ fault_insert = NoFault
         /\ add_clipboard_item_tx(content, check_duplicate, fault_check, fault_insert)
         /\ seq' <= MaxId /\ clock' = clock /\ Sequential
    \/ \E item_id \in Ids, fault \in Faults(1) : delete_item_tx(item_id, fault) /\ Sequential
    \/ \E fault \in Faults(2) : clear_all_tx(fault) /\ Sequential
    \/ \E item_id \in Ids, fault \in Faults(2) :
         toggle_favorite_tx(item_id, fault) /\ Sequential
    \/ \E limit \in 1..MaxLimit, fault \in Faults(1) :
         get_all_items_tx(limit, 0, fault) /\ Sequential
    \/ \E keyword \in FaultKeywords, limit \in 1..MaxLimit, fault \in Faults(1) :
         search_items_tx(keyword, limit, fault) /\ Sequential
    \/ \E fault \in Faults(2) : get_statistics_tx(fault) /\ Sequential

SpecFault == Init /\ [][NextFault]_vars

(***************************************************************************)
(* add_clipboard_item step by step, callers interleaved                    *)
(***************************************************************************)
\* add_clipboard_item, lines 78 to 84: the content is validated and
\* _is_duplicate runs in a connection of its own, which it commits and closes
add_clipboard_item_check(caller, content, check_duplicate) ==
    LET call == [op |-> "add_clipboard_item", content |-> content,
                 check_duplicate |-> check_duplicate]
        refuse == /\ last' = call @@ [ret |-> None]
                  /\ UNCHANGED pending
        go_on == /\ pending' = [pending EXCEPT ![caller] = Some(call)]
                 /\ UNCHANGED last
    IN
    /\ pending[caller] = None
    /\ IF Rejected(content) THEN refuse
       ELSE IF check_duplicate /\ DUPLICATE_CHECK_ENABLED
            THEN \E o \in OrderByTimestampDesc(table) :
                   IF _is_duplicate(content, LimitOffset(o, 1, 0)) THEN refuse ELSE go_on
            ELSE go_on
    /\ UNCHANGED <<table, seq, clock, issued, newest, removed, toggle_rets>>

\* add_clipboard_item, lines 86 to 99: the INSERT, in a second connection
add_clipboard_item_insert(caller) ==
    /\ pending[caller] # None
    /\ \E call \in pending[caller], timestamp \in clock..MaxTime :
         LET id == NextId(table, seq) IN
         /\ table' = table \cup {NewRow(id, call.content, timestamp)}
         /\ seq' = IF id > seq THEN id ELSE seq
         /\ clock' = timestamp
         /\ last' = call @@ [ret |-> Some(id)]
    /\ pending' = [pending EXCEPT ![caller] = None]
    /\ UNCHANGED <<issued, newest, removed, toggle_rets>>

\* the callers' calls interleaved at the connections' boundaries
NextInterleaved ==
    \/ \E caller \in Callers, content \in SearchContents, check_duplicate \in BOOLEAN :
         add_clipboard_item_check(caller, content, check_duplicate)
    \/ \E caller \in Callers : add_clipboard_item_insert(caller) /\ seq' <= MaxId
    \/ \E item_id \in Ids : delete_item(item_id) /\ UNCHANGED pending
    \/ clear_all /\ UNCHANGED pending

SpecInterleaved == Init /\ [][NextInterleaved]_vars

(***************************************************************************)
(* Properties                                                              *)
(***************************************************************************)
IsAdd(call) == call.op = "add_clipboard_item"
Valid(content) == 1 <= StrLen(content) /\ StrLen(content) <= MAX_CONTENT_LENGTH
\* the rows no other row has a greater timestamp than
LatestRows(tbl) == {r \in tbl : \A q \in tbl : r.timestamp >= q.timestamp}

\* C1: when add_clipboard_item(X, check_duplicate=True) has created a record
\* and the very next call is add_clipboard_item(X, check_duplicate=True), that
\* call returns None and creates no record.
C1_BackToBackDuplicateRefused ==
    [][ ( /\ IsAdd(last) /\ last.check_duplicate /\ last.ret # None
          /\ IsAdd(last') /\ last'.check_duplicate /\ last'.content = last.content )
        => (last'.ret = None /\ table' = table) ]_vars

\* C2 as stated: when some other content was inserted after the last record
\* with content X, add_clipboard_item(X, check_duplicate=True) is accepted,
\* whatever calls were made in between.
C2_AcceptedAfterOtherInsert ==
    [][ ( /\ newest # None
          /\ IsAdd(last') /\ last'.check_duplicate /\ Valid(last'.content)
          /\ newest # Some(last'.content) )
        => (last'.ret # None /\ table' # table) ]_vars

\* C2 as amended: add_clipboard_item(X, check_duplicate=True) with valid X is
\* accepted whenever the store is empty or none of the stored records with the
\* greatest timestamp has content X, also when X is stored with an older one.
C2_AcceptedUnlessLatestEqual ==
    [][ ( /\ IsAdd(last') /\ last'.check_duplicate /\ Valid(last'.content)
          /\ \A r \in LatestRows(table) : r.content # last'.content )
        => ( /\ last'.ret # None
             /\ \E r \in table' \ table : r.content = last'.content /\ last'.ret = Some(r.id) ) ]_vars

\* a deduplicating insert was accepted although an older record has its content
C2_Witness ==
    /\ IsAdd(last) /\ last.check_duplicate /\ last.ret # None
    /\ \E r, q \in table : /\ last.ret = Some(r.id) /\ q.id < r.id
                           /\ q.content = r.content /\ q.timestamp < r.timestamp

\* C3: add_clipboard_item(c, check_duplicate=False) with 1 <= len(c) <=
\* MAX_CONTENT_LENGTH returns an id, and a get_all_items(limit=1, offset=0)
\* that follows at once returns exactly one record, whose content is c.
C3_InsertedIsListedFirst ==
    [][ /\ (IsAdd(last') /\ ~last'.check_duplicate /\ Valid(last'.content))
           => last'.ret # None
        /\ ( /\ IsAdd(last) /\ ~last.check_duplicate /\ last.ret # None
             /\ last'.op = "get_all_items" /\ last'.limit = 1 /\ last'.offset = 0 )
           => (Len(last'.ret) = 1 /\ last'.ret[1].content = last.content) ]_vars

\* the ids of the rows of tbl
IdsOf(tbl) == {r.id : r \in tbl}

\* C4: add_clipboard_item with empty content or with more than
\* MAX_CONTENT_LENGTH characters returns None, with check_duplicate True or
\* False, and leaves the table as it was.
C4_InvalidContentRefused ==
    [][ (IsAdd(last') /\ ~Valid(last'.content))
        => (last'.ret = None /\ table' = table /\ seq' = seq) ]_vars

\* a content of MAX_CONTENT_LENGTH + 1 characters was refused by a store holding rows
C4_Witness ==
    /\ IsAdd(last) /\ StrLen(last.content) = MAX_CONTENT_LENGTH + 1
    /\ last.ret = None /\ table # {}

\* C5: the ids add_clipboard_item returns are strictly increasing over the
\* whole run, also past the ids of rows delete_item or clear_all removed, and
\* no two stored rows share an id.
C5_IdsIncreaseNeverReused ==
    /\ \A i, j \in 1..Len(issued) : i < j => issued[i] < issued[j]
    /\ \A r, q \in table : r.id = q.id => r = q
    /\ \A r \in table : \E i \in 1..Len(issued) : issued[i] = r.id
    /\ (IsAdd(last) /\ last.ret # None) => last.ret = Some(issued[Len(issued)])

\* a row was inserted after a row with a smaller id had been removed
C5_Witness ==
    /\ IsAdd(last) /\ last.ret # None
    /\ \E i \in 1..(Len(issued) - 1) : issued[i] \notin IdsOf(table)

\* C6: delete_item(id) returns True exactly when a row with that id is stored,
\* and then removes that row and no other; once it has returned True for an
\* id, every later delete_item(id) returns False and changes nothing.
C6_DeleteTrueOnce ==
    [][ last'.op = "delete_item"
        => LET id == last'.item_id IN
           /\ last'.ret = (id \in IdsOf(table))
           /\ table' = {r \in table : r.id # id}
           /\ id \in removed => (last'.ret = FALSE /\ table' = table) ]_vars

\* delete_item was called again for an id it had removed, with other rows stored
C6_Witness ==
    /\ last.op = "delete_item" /\ last.item_id \in removed
    /\ last.ret = FALSE /\ table # {}

\* C7: clear_all returns the number of rows stored before the call and leaves
\* the table empty; a get_statistics that follows reports total_items = 0 and
\* an empty by_type.
C7_ClearAllCount ==
    [][ /\ last'.op = "clear_all" => (last'.ret = Cardinality(table) /\ table' = {})
        /\ (last.op = "clear_all" /\ last'.op = "get_statistics")
           => (last'.ret.total_items = 0 /\ DOMAIN last'.ret.by_type = {}) ]_vars

\* clear_all has emptied a table of several rows
C7_Witness == last.op = "clear_all" /\ last.ret >= 2 /\ table = {}

\* C8: a row is created with is_favorite = 0; toggle_favorite(id) on a stored id
\* flips is_favorite and returns the new value, hence True on the first call
\* for the id and the negation of its previous result on each later one; on an
\* id that is not stored it returns False and leaves the table as it was.
C8_ToggleAlternates ==
    [][ /\ IsAdd(last') => \A r \in table' \ table : r.is_favorite = 0
        /\ last'.op = "toggle_favorite"
           => LET id == last'.item_id IN
              IF id \in IdsOf(table)
              THEN /\ \E r \in table, q \in table' :
                        /\ r.id = id /\ q.id = id
                        /\ q.is_favorite = 1 - r.is_favorite
                        /\ last'.ret = (q.is_favorite = 1)
                   /\ IF toggle_rets[id] = None THEN last'.ret = TRUE
                      ELSE toggle_rets[id] = Some(~last'.ret)
              ELSE last'.ret = FALSE /\ table' = table ]_vars

\* the second of two toggle_favorite calls on a stored id returned False
C8_Witness ==
    /\ last.op = "toggle_favorite" /\ last.ret = FALSE
    /\ \E r \in table : r.id = last.item_id /\ r.is_favorite = 0

RECURSIVE SumOver(_, _)
\* the sum of f over the keys in S
SumOver(f, S) ==
    IF S = {} THEN 0
    ELSE LET k == CHOOSE x \in S : TRUE IN f[k] + SumOver(f, S \ {k})

\* C9: get_statistics returns total_items equal to the number of stored rows
\* and a by_type whose values sum to total_items, with an entry, of count at
\* least 1, for exactly the content types some stored row has.
C9_StatisticsConsistent ==
    last.op = "get_statistics"
    => LET by_type == last.ret.by_type IN
       /\ last.ret.total_items = Cardinality(table)
       /\ SumOver(by_type, DOMAIN by_type) = last.ret.total_items
       /\ DOMAIN by_type = {r.content_type : r \in table}
       /\ \A t \in DOMAIN by_type : by_type[t] >= 1

\* statistics taken after a delete_item removed the only row of a type
C9_Witness ==
    /\ last.op = "get_statistics" /\ last.ret.total_items >= 1
    /\ Cardinality(DOMAIN last.ret.by_type) = 1 /\ removed # {}
    /\ newest # None /\ \A r \in table : Some(r.content) # newest

\* C10, for the first page: once 2k records with distinct contents are all the
\* store has ever held, get_all_items(limit=k, offset=0) returns k records,
\* the most recently inserted first, beginning with the record inserted last.
C10_FirstPageNewestFirst ==
    ( /\ last.op = "get_all_items" /\ last.offset = 0
      /\ Cardinality(table) = 2 * last.limit /\ seq = 2 * last.limit
      /\ \A r, q \in table : r.content = q.content => r = q )
    => /\ Len(last.ret) = last.limit
       /\ \A i, j \in 1..Len(last.ret) : i < j => last.ret[i].id > last.ret[j].id
       /\ last.ret[1].id = seq

\* C11: for a keyword of at least SEARCH_MIN_LENGTH characters,
\* search_items(keyword, limit) returns exactly the stored records whose
\* content contains the keyword as a literal, case-sensitive substring, by
\* timestamp descending, cut to at most limit records.
C11_SearchLiteralSubstring ==
    (last.op = "search_items" /\ Len(last.keyword) >= SEARCH_MIN_LENGTH) =>
        LET matching == {r \in table : Contains(r.content, Str(last.keyword))}
            ret == last.ret
        IN  /\ \A i \in 1..Len(ret) : ret[i] \in matching
            /\ \A i, j \in 1..Len(ret) : i < j =>
                   ret[i] # ret[j] /\ ret[i].timestamp >= ret[j].timestamp
            /\ \A r \in matching :
                   (\A i \in 1..Len(ret) : ret[i] # r) =>
                       /\ Len(ret) = last.limit
                       /\ \A i \in 1..Len(ret) : ret[i].timestamp >= r.timestamp
            /\ Len(ret) <= last.limit

\* C12: search_items with a keyword of fewer than SEARCH_MIN_LENGTH
\* characters returns the empty list in every state of the store, also when
\* stored records contain the keyword, and leaves the store as it was.
C12_ShortKeywordEmptyList ==
    [][ (last'.op = "search_items" /\ Len(last'.keyword) < SEARCH_MIN_LENGTH)
        => (last'.ret = <<>> /\ table' = table /\ seq' = seq) ]_vars

C12_Witness ==
    /\ last.op = "search_items"
    /\ Len(last.keyword) = 1
    /\ last.ret = <<>>
    /\ Cardinality({r \in table : Contains(r.content, Str(last.keyword))}) >= 2
    /\ \E r \in table : r.is_favorite = 1

\* the calls that write to the store
Writers == {"add_clipboard_item", "delete_item", "clear_all", "toggle_favorite"}
\* the connections of the call that met a storage fault
Faulted(call) == {i \in 1..Len(call.connections) : call.connections[i].fault # NoFault}

\* C13: when a storage fault occurs anywhere inside add_clipboard_item,
\* delete_item, clear_all or toggle_favorite, the transaction is rolled back,
\* the fault reaches the caller, and the persisted table is what it was
\* before the call.
C13_FaultLeavesTableAsBefore ==
    [][ (last'.op \in Writers /\ Faulted(last') # {}) =>
          /\ last'.raised
          /\ table' = table
          /\ seq' = seq
          /\ \A i \in Faulted(last') :
               LET c == last'.connections[i] IN
               /\ \A k \in 1..Len(c.log) : c.log[k] # "commit"
               /\ c.fault.at # "connect" => \E k \in 1..Len(c.log) : c.log[k] = "rollback" ]_vars

\* a fault after toggle_favorite's UPDATE, on a record marked favourite before
C13_Witness ==
    /\ last.op = "toggle_favorite"
    /\ last.raised
    /\ last.connections[1].fault = [at |-> "execute", stmt |-> 2]
    /\ \E r \in table : r.id = last.item_id /\ r.is_favorite = 1
    /\ Cardinality(table) >= 2

\* C14: detect gives unknown for empty or None content; otherwise url when
\* the lower-cased, whitespace-trimmed content starts with http://, https://
\* or ftp://, also when it contains a code indicator; otherwise code when the
\* lower-cased content contains one of the six code indicators; otherwise
\* text.
C14_DetectFirstMatchWins ==
    last.op = "detect" =>
        LET content == last.content IN
        last.ret =
            IF content = NoneContent \/ StrLen(content) = 0 THEN UNKNOWN
            ELSE IF \E p \in UrlPrefixes : StartsWith(Strip(Lower(content)), p) THEN URL
            ELSE IF \E indicator \in code_indicators : Contains(Lower(content), indicator)
                 THEN CODE
            ELSE TEXT

RECURSIVE CharAt(_, _)
\* s[i - 1]: the i-th character of s, 1 <= i <= len(s)
CharAt(s, i) == IF i <= s[1].n THEN s[1].ch ELSE CharAt(Tail(s), i - s[1].n)

C16_CheckAndInsertAtomic ==
    [][ /\ \A caller \in Callers :
             (pending[caller] # None /\ pending'[caller] = pending[caller])
                 => table' = table
        /\ (IsAdd(last') /\ last' # last /\ last'.check_duplicate /\ last'.ret # None)
             => ~ ( /\ table # {}
                    /\ \A r \in LatestRows(table) : r.content = last'.content ) ]_vars

\* C17: a connection that was opened is closed whichever way the call ends:
\* after a call returns or raises no connection is open, and each connection
\* was committed (the block succeeded) or rolled back (it failed) before it
\* was closed.
C17_ConnectionsClosed ==
    [][ \A i \in 1..Len(last'.connections) :
          LET c == last'.connections[i] IN
          /\ ~c.open
          /\ c.log \in IF c.fault.at = "connect" THEN { <<>> }
                       ELSE IF c.fault = NoFault THEN { <<"connect", "commit", "close">> }
                       ELSE { <<"connect", "rollback", "close">> } ]_vars

\* add_clipboard_item raised in its second connection, after the duplicate
\* check's connection had ended well
C17_Witness ==
    /\ last.op = "add_clipboard_item"
    /\ last.raised
    /\ Len(last.connections) = 2
    /\ last.connections[1].log = <<"connect", "commit", "close">>
    /\ last.connections[2].log = <<"connect", "rollback", "close">>
    /\ last.connections[2].fault.at = "commit"

\* the fields of a record that are set when it is inserted
Inserted(r) ==
    [id |-> r.id, content |-> r.content, content_type |-> r.content_type,
     timestamp |-> r.timestamp, char_count |-> r.char_count, preview |-> r.preview]

\* C18: every stored record has a content of 1 to MAX_CONTENT_LENGTH
\* characters, char_count = len(content), content_type = detect(content),
\* the preview generated from its content, and is_favorite 0 or 1; and no
\* call changes these derived fields of a record that stays stored.
C18_RecordsWellFormed ==
    /\ [] \A r \in table :
             /\ 1 <= StrLen(r.content) /\ StrLen(r.content) <= MAX_CONTENT_LENGTH
             /\ r.char_count = StrLen(r.content)
             /\ r.content_type = detect(r.content)
             /\ r.preview = _generate_preview(r.content)
             /\ r.is_favorite \in {0, 1}
    /\ [][ \A q \in table, r \in table' : q.id = r.id => Inserted(q) = Inserted(r) ]_vars

C18_Witness ==
    /\ last.op = "toggle_favorite"
    /\ \E r \in table : /\ r.id = last.item_id
                        /\ r.is_favorite = 0
                        /\ toggle_rets[r.id] = Some(FALSE)
                        /\ r.char_count = MAX_CONTENT_LENGTH
                        /\ StrLen(r.preview) = MAX_PREVIEW_LENGTH + 3
    /\ \E r \in table : r.content_type = CODE /\ r.is_favorite = 1

\* C19: toggle_favorite(id) changes the is_favorite field of the record with
\* that id and nothing else; delete_item(id) leaves the records with other
\* ids as they are; add_clipboard_item leaves the records already stored as
\* they are; get_all_items, search_items and get_statistics leave the table
\* as it is.
C19_FrameConditions ==
    [][ /\ last'.op = "toggle_favorite" =>
             /\ {Inserted(r) : r \in table'} = {Inserted(r) : r \in table}
             /\ Cardinality(table') = Cardinality(table)
             /\ \A r \in table : r.id # last'.item_id => r \in table'
        /\ last'.op = "delete_item" =>
             /\ table' \subseteq table
             /\ \A r \in table : r.id # last'.item_id => r \in table'
        /\ last'.op = "add_clipboard_item" => table \subseteq table'
        /\ last'.op \in {"get_all_items", "search_items", "get_statistics"} =>
             table' = table ]_vars

C19_Witness ==
    /\ last.op = "toggle_favorite"
    /\ last.ret = FALSE
    /\ \E r \in table : r.id = last.item_id /\ r.is_favorite = 0
    /\ \E r \in table : r.id # last.item_id /\ r.is_favorite = 1

\* C20: the duplicate check sees only the records stored now: when the store
\* is empty, also after clear_all() or after its last record was deleted,
\* add_clipboard_item(c, check_duplicate=True) with valid c is accepted, also
\* when c is the content of the record inserted last and since removed.
C20_AcceptedIntoEmptyStore ==
    [][ ( /\ table = {}
          /\ IsAdd(last') /\ last'.check_duplicate /\ Valid(last'.content) )
        => /\ last'.ret # None
           /\ \E r \in table' : table' = {r} /\ Some(r.id) = last'.ret
                                /\ r.content = last'.content ]_vars

\* a deduplicating insert accepted into a store that held records before
C20_Witness ==
    /\ IsAdd(last) /\ last.check_duplicate /\ last.ret # None
    /\ newest = Some(last.content)
    /\ \E r \in table : table = {r} /\ r.id >= 2 /\ Some(r.id) = last.ret
    /\ Len(issued) >= 2
    /\ removed # {}

====
